---- MODULE Spec2Model ----
(***************************************************************************)
(* The two routed views of the use-case client: the list view              *)
(* (HomeComponent) and the detail/chat view (UseCaseDetailComponent), the  *)
(* HTTP requests each has in flight, and the remote service that answers   *)
(* them.  Every callback of a component runs to completion on the single   *)
(* UI thread, so each one is one atomic action; the network and the remote *)
(* service act between them.  The router shows one view at a time: Spec    *)
(* and SpecDetails run the detail view, SpecHome runs the list view.       *)
(***************************************************************************)
EXTENDS Integers, Sequences, FiniteSets, TLC

VARIABLES
    useCaseId,            \* component field: number (NotSet before the first route emission)
    useCase,              \* component field: UseCaseDetails | null, as <<>> or <<details>>
    isLoading,            \* component field
    error,                \* component field: string | null
    messages,             \* component field: the displayed transcript
    newMessage,           \* component field: the input text, a sequence of characters
    isSending,            \* component field
    activeConversationId, \* component field: number | null
    routeSub,             \* the route.params subscription: "none", "active", "closed"
    detailReqs,           \* getUseCaseDetails requests in flight, in issue order
    chatReqs,             \* startConversation / sendMessage requests in flight
    server,               \* remote service: use case id -> its conversations
    requests,             \* HTTP requests dispatched so far (bounds the model)
    last,                 \* the operation whose step produced this state
    useCases,             \* HomeComponent field: the displayed list
    homeIsLoading,        \* HomeComponent field isLoading
    showCreateForm,       \* HomeComponent field
    newUseCaseDescription,\* HomeComponent field: the form text, a sequence of characters
    isCreating,           \* HomeComponent field
    homeView,             \* the list view: "constructed", "active"
    listReqs,             \* getUseCases requests in flight
    createReqs,           \* createUseCase requests in flight, in issue order
    navigated,            \* the router.navigate commands of the list view, in order
    serverUseCases        \* remote service: the use cases it lists

\* the state of the detail view, its requests and the conversations of the service
detailVars == <<useCaseId, useCase, isLoading, error, messages, newMessage, isSending,
                activeConversationId, routeSub, detailReqs, chatReqs, server>>

\* the state of the list view, its requests and the use-case list of the service
homeVars == <<useCases, homeIsLoading, showCreateForm, newUseCaseDescription,
              isCreating, homeView, listReqs, createReqs, navigated, serverUseCases>>

vars == <<useCaseId, useCase, isLoading, error, messages, newMessage, isSending,
          activeConversationId, routeSub, detailReqs, chatReqs,
          server, requests, last, useCases, homeIsLoading, showCreateForm,
          newUseCaseDescription, isCreating, homeView, listReqs, createReqs,
          navigated, serverUseCases>>

----------------------------------------------------------------------------
\* Bounds of the model.
MaxRequests == 3
MaxConvs == 3
MaxStartTime == 3

\* Values of the program.
NoConversation == 0
NotSet == 0
NaN == -1
Epoch == 1000
NoError == "null"
LoadFailedText == "Failed to load use case details. Please try again later."
SendFailedText == "Failed to send message. Please try again."
FinalResponse == <<"r">>

UseCaseIds == {1, 2}
RouteParamValues == {"1", "2", "x"}
Inputs == {<<>>, <<" ">>, <<"a", " ">>}

----------------------------------------------------------------------------
\* JavaScript conversions and helpers used by the component.

\* +params['id']
ToNumber(p) == CASE p = "1" -> 1 [] p = "2" -> 2 [] OTHER -> NaN

\* truthiness of a number | null: null, 0 and NaN are falsy
Truthy(n) == n # NoConversation /\ n # NaN

IsSpace(c) == c = " "

RECURSIVE TrimStart(_)
TrimStart(s) ==
    IF s = <<>> THEN s
    ELSE IF IsSpace(Head(s)) THEN TrimStart(Tail(s)) ELSE s

RECURSIVE TrimEnd(_)
TrimEnd(s) ==
    IF s = <<>> THEN s
    ELSE IF IsSpace(s[Len(s)]) THEN TrimEnd(SubSeq(s, 1, Len(s) - 1)) ELSE s

\* String.prototype.trim
Trim(s) == TrimEnd(TrimStart(s))

\* an ISO-8601 timestamp string, by its seconds and milliseconds fields
Timestamp(sec, ms) == [sec |-> sec, ms |-> ms]

\* new Date(t): the instant of timestamp t, in milliseconds
DateOf(t) == t.sec * 1000 + t.ms

\* new Date(ms).toISOString()
ToISOString(n) == Timestamp(n \div 1000, n % 1000)

\* the reduce callback, with the strict comparison flipped (keeps the later of equals)
PickLatestTiesLast(latest, current) ==
    IF DateOf(current.start_time) >= DateOf(latest.start_time) THEN current ELSE latest

\* the reduce callback: (latest, current) => new Date(current) > new Date(latest) ? current : latest
PickLatest(latest, current) ==
    IF DateOf(current.start_time) > DateOf(latest.start_time) THEN current ELSE latest

\* Array.prototype.reduce without an initial value, on a non-empty array
RECURSIVE ReduceFrom(_, _, _)
ReduceFrom(acc, convs, i) ==
    IF i > Len(convs) THEN acc
    ELSE ReduceFrom(PickLatest(acc, convs[i]), convs, i + 1)

LatestConversation(convs) == ReduceFrom(convs[1], convs, 2)

\* Array.prototype.find(c => c.id === conversationId), as <<>> or <<conversation>>
RECURSIVE FindFrom(_, _, _)
FindFrom(convs, id, i) ==
    IF i > Len(convs) THEN <<>>
    ELSE IF convs[i].id = id THEN <<convs[i]>>
    ELSE FindFrom(convs, id, i + 1)

FindConversation(convs, id) == FindFrom(convs, id, 1)

RemoveAt(s, i) == SubSeq(s, 1, i - 1) \o SubSeq(s, i + 1, Len(s))

----------------------------------------------------------------------------
\* The remote service.

ServerMessage(convId, pos, role, content, t) ==
    [id |-> convId * 10 + pos, sender_role |-> role, content |-> content, timestamp |-> t]

NewConversation(convId, t, text) ==
    [id |-> convId, start_time |-> t,
     messages |-> << ServerMessage(convId, 1, "user", text, t),
                     ServerMessage(convId, 2, "assistant", FinalResponse, t) >>]

AllConversations == UNION { { server[u][i] : i \in 1..Len(server[u]) } : u \in UseCaseIds }

NextConversationId ==
    LET ids == { c.id : c \in AllConversations } \cup {0}
    IN  (CHOOSE m \in ids : \A x \in ids : x <= m) + 1

\* timestamp a is earlier than timestamp b
Earlier(a, b) == a.sec < b.sec \/ (a.sec = b.sec /\ a.ms < b.ms)

\* the start times a new conversation may get: the service's clock does not run
\* backwards, and may not have advanced since the latest conversation started
NewStartTimes(convs) ==
    IF convs = <<>> THEN {Timestamp(1, 0)}
    ELSE LET ts == { convs[i].start_time : i \in 1..Len(convs) }
             latest == CHOOSE m \in ts : \A x \in ts : ~Earlier(m, x)
         IN  {latest, Timestamp(latest.sec + 1, 0)}

InitialServer ==
    [u \in UseCaseIds |->
        IF u = 1 THEN << NewConversation(1, Timestamp(1, 0), <<"a", " ">>) >> ELSE <<>>]

\* a use case as the service stores and returns it
UseCaseRecord(id, description) == [id |-> id, description |-> description, agents |-> <<>>]

\* the use cases the service lists at the start: one per use case id
InitialUseCases == [i \in 1..Cardinality(UseCaseIds) |-> UseCaseRecord(i, <<"a", " ">>)]

\* the first MaxStartTime half-second instants after second 0
StartTimes == { Timestamp(k \div 2, (k % 2) * 500) : k \in 1..MaxStartTime }

\* conversation lists a use case may hold: any start times, in any order
StartTimeLists == UNION { [1..n -> StartTimes] : n \in 0..MaxConvs }

ConversationsOf(ts) == [i \in 1..Len(ts) |-> NewConversation(i, ts[i], <<"a", " ">>)]

----------------------------------------------------------------------------
\* the component as its constructor and field initialisers leave it
InitView ==
    /\ useCaseId = NotSet
    /\ useCase = <<>>
    /\ isLoading = TRUE
    /\ error = NoError
    /\ messages = <<>>
    /\ newMessage = <<>>
    /\ isSending = FALSE
    /\ activeConversationId = NoConversation
    /\ routeSub = "none"
    /\ detailReqs = <<>>
    /\ chatReqs = <<>>
    /\ requests = 0
    /\ last = "constructor"

\* the list view as its constructor and field initialisers leave it
InitHomeView ==
    /\ useCases = <<>>
    /\ homeIsLoading = TRUE
    /\ showCreateForm = FALSE
    /\ newUseCaseDescription = <<>>
    /\ isCreating = FALSE
    /\ homeView = "constructed"
    /\ listReqs = <<>>
    /\ createReqs = <<>>
    /\ navigated = <<>>

Init ==
    /\ InitView
    /\ InitHomeView
    /\ server = InitialServer
    /\ serverUseCases = InitialUseCases

----------------------------------------------------------------------------
\* UseCaseDetailComponent.

ViewAlive == routeSub = "active"

DetailsRequest(id, reloadOf) == [useCaseId |-> id, response |-> <<>>, reloadOf |-> reloadOf]

\* loadUseCaseDetails(), up to the dispatch of the request; reloadOf records the
\* conversation id adopted by the chat turn that asked for this load, if one did
LoadUseCaseDetails(id, reloadOf) ==
    /\ isLoading' = TRUE
    /\ error' = NoError
    /\ detailReqs' = Append(detailReqs, DetailsRequest(id, reloadOf))
    /\ requests' = requests + 1

\* loadConversation(conversationId) against the details uc: the resulting transcript
LoadedMessages(uc, conversationId) ==
    LET conversation == IF uc = <<>> THEN <<>>
                        ELSE FindConversation(uc[1].conversations, conversationId)
    IN  IF conversation # <<>> THEN conversation[1].messages ELSE messages

\* ngOnInit(): subscribe to route.params, which emits the current parameters at once
NgOnInit(p) ==
    /\ routeSub = "none"
    /\ routeSub' = "active"
    /\ useCaseId' = ToNumber(p)
    /\ LoadUseCaseDetails(ToNumber(p), NoConversation)
    /\ last' = "ngOnInit"
    /\ UNCHANGED homeVars
    /\ UNCHANGED <<useCase, messages, newMessage, isSending, activeConversationId,
                   chatReqs, server>>

\* the route.params callback, on a later emission (the router reuses the component)
RouteParams(p) ==
    /\ routeSub = "active"
    /\ ToNumber(p) # useCaseId
    /\ requests < MaxRequests
    /\ useCaseId' = ToNumber(p)
    /\ LoadUseCaseDetails(ToNumber(p), NoConversation)
    /\ last' = "routeParams"
    /\ UNCHANGED homeVars
    /\ UNCHANGED <<useCase, messages, newMessage, isSending, activeConversationId,
                   routeSub, chatReqs, server>>

\* ngOnDestroy()
NgOnDestroy ==
    /\ routeSub = "active"
    /\ routeSub' = "closed"
    /\ last' = "ngOnDestroy"
    /\ UNCHANGED homeVars
    /\ UNCHANGED <<useCaseId, useCase, isLoading, error, messages, newMessage,
                   isSending, activeConversationId, detailReqs, chatReqs, server,
                   requests>>

\* goBack(): router.navigate(['/']); the router, not the component, acts on it, and
\* tears the view down through ngOnDestroy()
GoBack ==
    /\ ViewAlive
    /\ last' = "goBack"
    /\ UNCHANGED homeVars
    /\ UNCHANGED <<useCaseId, useCase, isLoading, error, messages, newMessage,
                   isSending, activeConversationId, routeSub, detailReqs, chatReqs,
                   server, requests>>

\* the next callback of loadUseCaseDetails(), for the response of request i
DetailsNextHandler(response) ==
    /\ useCase' = <<response>>
    /\ IF Len(response.conversations) > 0
       THEN LET latestConversation == LatestConversation(response.conversations)
            IN  /\ activeConversationId' = latestConversation.id
                /\ messages' = LoadedMessages(<<response>>, latestConversation.id)
       ELSE UNCHANGED <<activeConversationId, messages>>

DetailsNext(i) ==
    /\ i \in 1..Len(detailReqs)
    /\ detailReqs[i].response # <<>>
    /\ DetailsNextHandler(detailReqs[i].response[1])
    /\ isLoading' = FALSE
    /\ detailReqs' = RemoveAt(detailReqs, i)
    /\ last' = "detailsNext"
    /\ UNCHANGED homeVars
    /\ UNCHANGED <<useCaseId, error, newMessage, isSending, routeSub, chatReqs, server,
                   requests>>

\* the error callback of loadUseCaseDetails(), for request i
DetailsError(i) ==
    /\ i \in 1..Len(detailReqs)
    /\ error' = LoadFailedText
    /\ isLoading' = FALSE
    /\ detailReqs' = RemoveAt(detailReqs, i)
    /\ last' = "detailsError"
    /\ UNCHANGED homeVars
    /\ UNCHANGED <<useCaseId, useCase, messages, newMessage, isSending,
                   activeConversationId, routeSub, chatReqs, server, requests>>

\* loadConversation(conversationId), called from the conversation list of the view
LoadConversation(conversationId) ==
    /\ ViewAlive
    /\ useCase # <<>>
    /\ \E i \in 1..Len(useCase[1].conversations) :
          useCase[1].conversations[i].id = conversationId
    /\ activeConversationId' = conversationId
    /\ messages' = LoadedMessages(useCase, conversationId)
    /\ last' = "loadConversation"
    /\ UNCHANGED homeVars
    /\ UNCHANGED <<useCaseId, useCase, isLoading, error, newMessage, isSending,
                   routeSub, detailReqs, chatReqs, server, requests>>

\* startNewConversation(), with a reset of the error and sending state added
StartNewConversationResetsAll ==
    /\ ViewAlive
    /\ activeConversationId' = NoConversation
    /\ messages' = <<>>
    /\ error' = NoError
    /\ isSending' = FALSE
    /\ last' = "startNewConversation"
    /\ UNCHANGED homeVars
    /\ UNCHANGED <<useCaseId, useCase, isLoading, newMessage, routeSub, detailReqs,
                   chatReqs, server, requests>>

\* startNewConversation()
StartNewConversation ==
    /\ ViewAlive
    /\ activeConversationId' = NoConversation
    /\ messages' = <<>>
    /\ last' = "startNewConversation"
    /\ UNCHANGED homeVars
    /\ UNCHANGED <<useCaseId, useCase, isLoading, error, newMessage, isSending,
                   routeSub, detailReqs, chatReqs, server, requests>>

\* the [(ngModel)] binding of the input field writes newMessage
SetNewMessage(text) ==
    /\ ViewAlive
    /\ text # newMessage
    /\ newMessage' = text
    /\ last' = "setNewMessage"
    /\ UNCHANGED homeVars
    /\ UNCHANGED <<useCaseId, useCase, isLoading, error, messages, isSending,
                   activeConversationId, routeSub, detailReqs, chatReqs, server,
                   requests>>

\* Date.now() / new Date(): the values the browser clock is read at
ClockReads == {Epoch, Epoch + 1}

LocalMessage(role, content, t) ==
    [id |-> t, sender_role |-> role, content |-> content, timestamp |-> ToISOString(t)]

\* the request of a sendMessage() that never continues a conversation
ChatRequestAlwaysStarts(messageContent, userMessage) ==
    [kind |-> "startConversation",
     useCaseId |-> useCaseId,
     conversationId |-> activeConversationId,
     user_input |-> messageContent,
     response |-> <<>>,
     userMessage |-> userMessage]

\* the request sendMessage() builds; userMessage records the optimistic entry of the turn
ChatRequest(messageContent, userMessage) ==
    [kind |-> IF Truthy(activeConversationId) THEN "sendMessage" ELSE "startConversation",
     useCaseId |-> useCaseId,
     conversationId |-> activeConversationId,
     user_input |-> messageContent,
     response |-> <<>>,
     userMessage |-> userMessage]

\* the guard of sendMessage() without its isSending test
SendRejectedOnBlankOnly == Trim(newMessage) = <<>>

\* the guard of sendMessage(): the call returns at once
SendRejected == Trim(newMessage) = <<>> \/ isSending

\* sendMessage() past its guard, leaving the input field as it is
SendAcceptedKeepsInput(t) ==
    LET userMessage == LocalMessage("user", newMessage, t)
    IN  /\ messages' = Append(messages, userMessage)
        /\ newMessage' = newMessage
        /\ isSending' = TRUE
        /\ error' = NoError
        /\ chatReqs' = Append(chatReqs, ChatRequest(newMessage, userMessage))
        /\ requests' = requests + 1

\* sendMessage() past its guard
SendAccepted(t) ==
    LET userMessage == LocalMessage("user", newMessage, t)
    IN  /\ messages' = Append(messages, userMessage)
        /\ newMessage' = <<>>
        /\ isSending' = TRUE
        /\ error' = NoError
        /\ chatReqs' = Append(chatReqs, ChatRequest(newMessage, userMessage))
        /\ requests' = requests + 1

\* sendMessage()
SendMessage ==
    /\ ViewAlive
    /\ IF SendRejected
       THEN /\ UNCHANGED <<messages, newMessage, isSending, error, chatReqs, requests>>
       ELSE /\ requests < MaxRequests
            /\ \E t \in ClockReads : SendAccepted(t)
    /\ last' = "sendMessage"
    /\ UNCHANGED homeVars
    /\ UNCHANGED <<useCaseId, useCase, isLoading, activeConversationId, routeSub,
                   detailReqs, server>>

\* the next callback of sendMessage(), for response
ChatNextHandler(response, t) ==
    /\ messages' = Append(messages, LocalMessage("assistant", response.final_response, t))
    /\ IF ~Truthy(activeConversationId) /\ Truthy(response.conversation_id)
       THEN /\ activeConversationId' = response.conversation_id
            /\ LoadUseCaseDetails(useCaseId, response.conversation_id)
       ELSE UNCHANGED <<activeConversationId, isLoading, error, detailReqs, requests>>

\* finalize(() => this.isSending = false) left out
ChatFinalizeMissing == isSending' = isSending

\* finalize(() => this.isSending = false)
ChatFinalize == isSending' = FALSE

ChatNext ==
    /\ chatReqs # <<>>
    /\ chatReqs[1].response # <<>>
    /\ (~Truthy(activeConversationId)) => requests < MaxRequests
    /\ \E t \in ClockReads : ChatNextHandler(chatReqs[1].response[1], t)
    /\ ChatFinalize
    /\ chatReqs' = <<>>
    /\ last' = "chatNext"
    /\ UNCHANGED homeVars
    /\ UNCHANGED <<useCaseId, useCase, newMessage, routeSub, server>>

\* the error callback of sendMessage(), rolling the optimistic entry back
ChatErrorHandlerRollsBack ==
    /\ error' = SendFailedText
    /\ messages' = SubSeq(messages, 1, Len(messages) - 1)

\* the error callback of sendMessage()
ChatErrorHandler ==
    /\ error' = SendFailedText
    /\ UNCHANGED messages

ChatError ==
    /\ chatReqs # <<>>
    /\ ChatErrorHandler
    /\ ChatFinalize
    /\ chatReqs' = <<>>
    /\ last' = "chatError"
    /\ UNCHANGED homeVars
    /\ UNCHANGED <<useCaseId, useCase, isLoading, newMessage, activeConversationId,
                   routeSub, detailReqs, server, requests>>

----------------------------------------------------------------------------
\* The remote service answers.

\* GET /use_cases/{id}: the details as they are when the request is served
DetailsServe(i) ==
    /\ i \in 1..Len(detailReqs)
    /\ detailReqs[i].response = <<>>
    /\ detailReqs[i].useCaseId \in UseCaseIds
    /\ detailReqs' = [detailReqs EXCEPT ![i].response =
                        << [id |-> detailReqs[i].useCaseId,
                            conversations |-> server[detailReqs[i].useCaseId]] >>]
    /\ last' = "detailsServe"
    /\ UNCHANGED homeVars
    /\ UNCHANGED <<useCaseId, useCase, isLoading, error, messages, newMessage,
                   isSending, activeConversationId, routeSub, chatReqs, server,
                   requests>>

\* POST /use_cases/{id}/conversation: a new conversation holding the first turn
ServeStartConversation(req) ==
    /\ req.useCaseId \in UseCaseIds
    /\ \E t \in NewStartTimes(server[req.useCaseId]) :
          server' = [server EXCEPT ![req.useCaseId] =
                        Append(@, NewConversation(NextConversationId, t, req.user_input))]
    /\ chatReqs' = << [req EXCEPT !.response =
                        << [conversation_id |-> NextConversationId,
                            final_response |-> FinalResponse] >>] >>

\* POST /use_cases/{id}/conversation/{conversationId}: one more turn of a conversation
ServeSendMessage(req) ==
    /\ req.useCaseId \in UseCaseIds
    /\ \E i \in 1..Len(server[req.useCaseId]) :
          LET conv == server[req.useCaseId][i]
              n == Len(conv.messages)
          IN  /\ conv.id = req.conversationId
              /\ server' = [server EXCEPT ![req.useCaseId][i].messages =
                    @ \o << ServerMessage(conv.id, n + 1, "user", req.user_input, conv.start_time),
                            ServerMessage(conv.id, n + 2, "assistant", FinalResponse, conv.start_time) >>]
    /\ chatReqs' = << [req EXCEPT !.response =
                        << [conversation_id |-> req.conversationId,
                            final_response |-> FinalResponse] >>] >>

ChatServe ==
    /\ chatReqs # <<>>
    /\ chatReqs[1].response = <<>>
    /\ IF chatReqs[1].kind = "startConversation"
       THEN ServeStartConversation(chatReqs[1])
       ELSE ServeSendMessage(chatReqs[1])
    /\ last' = "chatServe"
    /\ UNCHANGED homeVars
    /\ UNCHANGED <<useCaseId, useCase, isLoading, error, messages, newMessage,
                   isSending, activeConversationId, routeSub, detailReqs, requests>>

----------------------------------------------------------------------------
\* HomeComponent.

\* the list view is the one displayed: activated, and no navigation requested yet
HomeAlive == homeView = "active" /\ navigated = <<>>

\* loadUseCases(), up to the dispatch of the request
LoadUseCases ==
    /\ homeIsLoading' = TRUE
    /\ listReqs' = Append(listReqs, [response |-> <<>>])
    /\ requests' = requests + 1

\* ngOnInit() of the list view
HomeNgOnInit ==
    /\ homeView = "constructed"
    /\ requests < MaxRequests
    /\ homeView' = "active"
    /\ LoadUseCases
    /\ last' = "homeNgOnInit"
    /\ UNCHANGED <<useCases, showCreateForm, newUseCaseDescription, isCreating,
                   createReqs, navigated, serverUseCases>>
    /\ UNCHANGED detailVars

\* the next callback of loadUseCases(), for response
ListNextHandler(response) == useCases' = response

\* the error callback of loadUseCases(), made to empty the list
ListErrorHandlerClearsList == useCases' = <<>>

\* the error callback of loadUseCases(): it logs to the console only
ListErrorHandler == useCases' = useCases

\* finalize(() => this.isLoading = false) of loadUseCases()
ListFinalize == homeIsLoading' = FALSE

ListNext(i) ==
    /\ i \in 1..Len(listReqs)
    /\ listReqs[i].response # <<>>
    /\ ListNextHandler(listReqs[i].response[1])
    /\ ListFinalize
    /\ listReqs' = RemoveAt(listReqs, i)
    /\ last' = "listNext"
    /\ UNCHANGED <<showCreateForm, newUseCaseDescription, isCreating, homeView,
                   createReqs, navigated, serverUseCases, requests>>
    /\ UNCHANGED detailVars

ListError(i) ==
    /\ i \in 1..Len(listReqs)
    /\ ListErrorHandler
    /\ ListFinalize
    /\ listReqs' = RemoveAt(listReqs, i)
    /\ last' = "listError"
    /\ UNCHANGED <<showCreateForm, newUseCaseDescription, isCreating, homeView,
                   createReqs, navigated, serverUseCases, requests>>
    /\ UNCHANGED detailVars

\* the view opens or closes the creation form
ToggleCreateForm ==
    /\ HomeAlive
    /\ showCreateForm' = ~showCreateForm
    /\ last' = "toggleCreateForm"
    /\ UNCHANGED <<useCases, homeIsLoading, newUseCaseDescription, isCreating, homeView,
                   listReqs, createReqs, navigated, serverUseCases, requests>>
    /\ UNCHANGED detailVars

\* the user edits the description field, which is bound to newUseCaseDescription
SetDescription(text) ==
    /\ HomeAlive
    /\ newUseCaseDescription' = text
    /\ last' = "setDescription"
    /\ UNCHANGED <<useCases, homeIsLoading, showCreateForm, isCreating, homeView,
                   listReqs, createReqs, navigated, serverUseCases, requests>>
    /\ UNCHANGED detailVars

\* the request createUseCase() builds
CreateRequest(description) == [description |-> description, response |-> <<>>]

\* a guard of createUseCase() that also returns while a creation is in flight
CreateRejectedWhileCreating == Trim(newUseCaseDescription) = <<>> \/ isCreating

\* the guard of createUseCase(): the call returns at once
CreateRejected == Trim(newUseCaseDescription) = <<>>

\* createUseCase()
CreateUseCase ==
    /\ HomeAlive
    /\ IF CreateRejected
       THEN UNCHANGED <<isCreating, createReqs, requests>>
       ELSE /\ requests < MaxRequests
            /\ isCreating' = TRUE
            /\ createReqs' = Append(createReqs, CreateRequest(newUseCaseDescription))
            /\ requests' = requests + 1
    /\ last' = "createUseCase"
    /\ UNCHANGED <<useCases, homeIsLoading, showCreateForm, newUseCaseDescription,
                   homeView, listReqs, navigated, serverUseCases>>
    /\ UNCHANGED detailVars

\* the next callback of createUseCase(), with push in place of unshift
CreateNextHandlerAppends(response) ==
    /\ useCases' = Append(useCases, response)
    /\ newUseCaseDescription' = <<>>
    /\ showCreateForm' = FALSE
    /\ navigated' = Append(navigated, <<"/use-case", response.id>>)

\* the next callback of createUseCase(), for response
CreateNextHandler(response) ==
    /\ useCases' = <<response>> \o useCases
    /\ newUseCaseDescription' = <<>>
    /\ showCreateForm' = FALSE
    /\ navigated' = Append(navigated, <<"/use-case", response.id>>)

\* the error callback of createUseCase(), made to reset the form
CreateErrorHandlerResetsForm ==
    /\ newUseCaseDescription' = <<>>
    /\ showCreateForm' = FALSE
    /\ UNCHANGED <<useCases, navigated>>

\* the error callback of createUseCase(): it logs to the console only
CreateErrorHandler == UNCHANGED <<useCases, newUseCaseDescription, showCreateForm, navigated>>

\* finalize(() => this.isCreating = false)
CreateFinalize == isCreating' = FALSE

CreateNext(i) ==
    /\ i \in 1..Len(createReqs)
    /\ createReqs[i].response # <<>>
    /\ CreateNextHandler(createReqs[i].response[1])
    /\ CreateFinalize
    /\ createReqs' = RemoveAt(createReqs, i)
    /\ last' = "createNext"
    /\ UNCHANGED <<homeIsLoading, homeView, listReqs, serverUseCases, requests>>
    /\ UNCHANGED detailVars

CreateError(i) ==
    /\ i \in 1..Len(createReqs)
    /\ CreateErrorHandler
    /\ CreateFinalize
    /\ createReqs' = RemoveAt(createReqs, i)
    /\ last' = "createError"
    /\ UNCHANGED <<homeIsLoading, homeView, listReqs, serverUseCases, requests>>
    /\ UNCHANGED detailVars

\* viewUseCase(useCaseId), called from an entry of the displayed list
ViewUseCase(id) ==
    /\ HomeAlive
    /\ \E k \in 1..Len(useCases) : useCases[k].id = id
    /\ navigated' = Append(navigated, <<"/use-case", id>>)
    /\ last' = "viewUseCase"
    /\ UNCHANGED <<useCases, homeIsLoading, showCreateForm, newUseCaseDescription,
                   isCreating, homeView, listReqs, createReqs, serverUseCases, requests>>
    /\ UNCHANGED detailVars

----------------------------------------------------------------------------
\* The remote service behind the list view.

\* GET /use_cases/: the list as the service holds it when the request is served
ListServe(i) ==
    /\ i \in 1..Len(listReqs)
    /\ listReqs[i].response = <<>>
    /\ listReqs' = [listReqs EXCEPT ![i].response = <<serverUseCases>>]
    /\ last' = "listServe"
    /\ UNCHANGED <<useCases, homeIsLoading, showCreateForm, newUseCaseDescription,
                   isCreating, homeView, createReqs, navigated, serverUseCases, requests>>
    /\ UNCHANGED detailVars

\* POST /use_cases/: a new use case with the next id, returned as stored
CreateServe(i) ==
    /\ i \in 1..Len(createReqs)
    /\ createReqs[i].response = <<>>
    /\ LET created == UseCaseRecord(Len(serverUseCases) + 1, createReqs[i].description)
       IN  /\ serverUseCases' = Append(serverUseCases, created)
           /\ createReqs' = [createReqs EXCEPT ![i].response = <<created>>]
    /\ last' = "createServe"
    /\ UNCHANGED <<useCases, homeIsLoading, showCreateForm, newUseCaseDescription,
                   isCreating, homeView, listReqs, navigated, requests>>
    /\ UNCHANGED detailVars

----------------------------------------------------------------------------
Next ==
    \/ \E p \in RouteParamValues : NgOnInit(p)
    \/ \E p \in RouteParamValues : RouteParams(p)
    \/ NgOnDestroy
    \/ GoBack
    \/ \E i \in 1..MaxRequests : DetailsServe(i)
    \/ \E i \in 1..MaxRequests : DetailsNext(i)
    \/ \E i \in 1..MaxRequests : DetailsError(i)
    \/ \E c \in 1..(MaxRequests + 1) : LoadConversation(c)
    \/ StartNewConversation
    \/ \E text \in Inputs : SetNewMessage(text)
    \/ SendMessage
    \/ ChatServe
    \/ ChatNext
    \/ ChatError

Spec == Init /\ [][Next]_vars

\* Loading details only, over every conversation list of the bounds.
InitDetails ==
    /\ InitView
    /\ InitHomeView
    /\ serverUseCases = InitialUseCases
    /\ \E ts \in StartTimeLists :
          server = [u \in UseCaseIds |-> IF u = 1 THEN ConversationsOf(ts) ELSE <<>>]

NextDetails ==
    \/ \E p \in RouteParamValues : NgOnInit(p)
    \/ \E p \in RouteParamValues : RouteParams(p)
    \/ \E i \in 1..MaxRequests : DetailsServe(i)
    \/ \E i \in 1..MaxRequests : DetailsNext(i)
    \/ \E i \in 1..MaxRequests : DetailsError(i)

SpecDetails == InitDetails /\ [][NextDetails]_vars

\* The list view.
NextHome ==
    \/ HomeNgOnInit
    \/ \E i \in 1..MaxRequests : ListServe(i)
    \/ \E i \in 1..MaxRequests : ListNext(i)
    \/ \E i \in 1..MaxRequests : ListError(i)
    \/ ToggleCreateForm
    \/ \E text \in Inputs : SetDescription(text)
    \/ CreateUseCase
    \/ \E i \in 1..MaxRequests : CreateServe(i)
    \/ \E i \in 1..MaxRequests : CreateNext(i)
    \/ \E i \in 1..MaxRequests : CreateError(i)
    \/ \E id \in 1..(MaxRequests + Cardinality(UseCaseIds)) : ViewUseCase(id)

SpecHome == Init /\ [][NextHome]_vars

----------------------------------------------------------------------------
\* Vocabulary of the properties.

Range(s) == { s[i] : i \in 1..Len(s) }

\* this step completes details request i with a response
HandlesDetails(i) ==
    /\ i \in 1..Len(detailReqs)
    /\ detailReqs[i].response # <<>>
    /\ detailReqs' = RemoveAt(detailReqs, i)

\* this step completes list request i with a response
HandlesList(i) ==
    /\ i \in 1..Len(listReqs)
    /\ listReqs[i].response # <<>>
    /\ listReqs' = RemoveAt(listReqs, i)

\* this step completes creation request i with a response
HandlesCreate(i) ==
    /\ i \in 1..Len(createReqs)
    /\ createReqs[i].response # <<>>
    /\ createReqs' = RemoveAt(createReqs, i)

\* s is t with entry e put before it
Prepended(s, e, t) ==
    /\ Len(s) = Len(t) + 1
    /\ s[1] = e
    /\ \A k \in 1..Len(t) : s[k + 1] = t[k]

\* the service's record of conversation id
ServerConversation(id) == CHOOSE c \in AllConversations : c.id = id

\* the ids of the conversations the service holds for use case id
ConversationIdsOf(id) ==
    IF id \in DOMAIN server THEN { server[id][k].id : k \in 1..Len(server[id]) } ELSE {}

\* a message without its identifier and timestamp
RoleAndContent(m) == <<m.sender_role, m.content>>

\* an entry built by sendMessage() at submit time
IsOptimisticUserMessage(m) == m.id >= Epoch /\ m.sender_role = "user"

\* conversation k of convs has the greatest start_time and is the first to have it
IsFirstLatest(convs, k) ==
    /\ k \in 1..Len(convs)
    /\ \A j \in 1..Len(convs) : ~Earlier(convs[k].start_time, convs[j].start_time)
    /\ \A j \in 1..(k - 1) : Earlier(convs[j].start_time, convs[k].start_time)

----------------------------------------------------------------------------
\* C1: when the request of a first chat turn (one submitted with no active
\* conversation, so a startConversation request) succeeds, a details load is
\* dispatched in that step; and when that load completes with a response, the
\* transcript is the service's message list of the conversation the turn created.
C1_FirstTurnReloadsToCanonical ==
    [][ /\ (last' = "chatNext" /\ chatReqs[1].kind = "startConversation")
            => /\ Len(detailReqs') = Len(detailReqs) + 1
               /\ detailReqs'[Len(detailReqs')].reloadOf
                      = chatReqs[1].response[1].conversation_id
        /\ last' = "detailsNext"
            => \A i \in 1..Len(detailReqs) :
                  (HandlesDetails(i) /\ detailReqs[i].reloadOf # NoConversation)
                      => messages' = ServerConversation(detailReqs[i].reloadOf).messages
      ]_vars

\* C2: whenever a conversation is active, the transcript, read as (sender_role,
\* content) pairs, is a prefix of the service's message list of that conversation
\* followed only by optimistic user messages.
C2_PrefixConsistent ==
    Truthy(activeConversationId) =>
        LET authoritative == ServerConversation(activeConversationId).messages
        IN  \E k \in 0..Len(messages) :
               /\ k <= Len(authoritative)
               /\ \A i \in 1..k : RoleAndContent(messages[i]) = RoleAndContent(authoritative[i])
               /\ \A i \in (k + 1)..Len(messages) : IsOptimisticUserMessage(messages[i])

\* C3 as stated: when the request of a chat turn fails, the optimistic user message
\* of that turn is in the transcript after the failure is handled, error is the
\* send-failure text and isSending is false.
C3_OptimisticMessageStillShown ==
    [][ last' = "chatError"
            => /\ chatReqs[1].userMessage \in Range(messages')
               /\ error' = SendFailedText
               /\ isSending' = FALSE
      ]_vars

\* C3: handling the failure of a chat request leaves the transcript exactly as it
\* was (nothing is rolled back), sets error to the send-failure text and isSending
\* to false.
C3_FailureKeepsTranscript ==
    [][ last' = "chatError"
            => /\ messages' = messages
               /\ error' = SendFailedText
               /\ isSending' = FALSE
      ]_vars

\* C3 witness: a failure has been handled with the optimistic user message of the
\* turn still the newest entry of the transcript.
C3_Witness ==
    /\ last = "chatError"
    /\ error = SendFailedText
    /\ ~isSending
    /\ messages # <<>>
    /\ IsOptimisticUserMessage(messages[Len(messages)])

\* C4: when the request of a subsequent chat turn (one submitted with a conversation
\* active, so a sendMessage request) succeeds, exactly one assistant message with
\* content final_response is appended and no details load is dispatched.
C4_SubsequentTurnAppendsWithoutReload ==
    [][ (last' = "chatNext" /\ chatReqs[1].kind = "sendMessage")
            => /\ \E t \in ClockReads :
                     messages' = Append(messages,
                        LocalMessage("assistant", chatReqs[1].response[1].final_response, t))
               /\ detailReqs' = detailReqs
      ]_vars

\* C5: on success of a chat turn the active conversation id becomes the returned
\* conversation_id, and a details load is dispatched exactly when the turn was
\* submitted with no conversation id held; when that load completes with a
\* response, the active conversation id is still the returned conversation_id.
C5_AdoptsAndRefetchesIffFirstTurn ==
    [][ /\ last' = "chatNext"
            => /\ activeConversationId' = chatReqs[1].response[1].conversation_id
               /\ (Len(detailReqs') = Len(detailReqs) + 1)
                      <=> (chatReqs[1].kind = "startConversation")
        /\ last' = "detailsNext"
            => \A i \in 1..Len(detailReqs) :
                  (HandlesDetails(i) /\ detailReqs[i].reloadOf # NoConversation)
                      => activeConversationId' = detailReqs[i].reloadOf
      ]_vars

\* C6 as stated: every sendMessage() call made with input that is non-empty after
\* trimming leaves the input field empty.
C6_EveryNonBlankCallClearsInput ==
    [][ (last' = "sendMessage" /\ Trim(newMessage) # <<>>) => newMessage' = <<>> ]_vars

\* C6: every sendMessage() call made with input that is non-empty after trimming
\* while isSending is false leaves the input field empty, within the call, with
\* the request still in flight.
C6_AcceptedCallClearsInput ==
    [][ (last' = "sendMessage" /\ Trim(newMessage) # <<>> /\ ~isSending)
            => /\ newMessage' = <<>>
               /\ chatReqs' # <<>>
               /\ chatReqs'[1].response = <<>>
      ]_vars

\* C6 witness: a call has been accepted: its request is in flight, unanswered, its
\* non-blank text is the newest entry of the transcript and the input is empty.
C6_Witness ==
    /\ last = "sendMessage"
    /\ chatReqs # <<>>
    /\ chatReqs[1].response = <<>>
    /\ Trim(chatReqs[1].user_input) # <<>>
    /\ messages # <<>>
    /\ messages[Len(messages)].content = chatReqs[1].user_input
    /\ newMessage = <<>>

\* C7: a details load that completes with a response holding N >= 1 conversations
\* makes active the conversation with the greatest start_time, the first of the
\* sequence among equals, and sets the transcript to that conversation's messages.
C7_LoadSelectsFirstLatest ==
    [][ last' = "detailsNext"
            => \A i \in 1..Len(detailReqs) :
                  LET convs == detailReqs[i].response[1].conversations
                  IN  (HandlesDetails(i) /\ Len(convs) >= 1)
                         => \E k \in 1..Len(convs) :
                               /\ IsFirstLatest(convs, k)
                               /\ activeConversationId' = convs[k].id
                               /\ messages' = convs[k].messages
      ]_vars

\* C7 witness: a load has completed on a list in which two conversations share the
\* greatest start_time, one older by milliseconds only precedes them, and the first
\* of the two is active.
C7_Witness ==
    /\ last = "detailsNext"
    /\ useCase # <<>>
    /\ LET convs == useCase[1].conversations
       IN  /\ Len(convs) >= 3
           /\ Earlier(convs[1].start_time, convs[2].start_time)
           /\ convs[1].start_time.sec = convs[2].start_time.sec
           /\ convs[2].start_time = convs[3].start_time
           /\ IsFirstLatest(convs, 2)
           /\ activeConversationId = convs[2].id
           /\ messages = convs[2].messages

\* C8: a details load that completes with a response holding no conversations
\* leaves the view with no active conversation and an empty transcript.
C8_EmptyDetailsMeansNoConversation ==
    [][ last' = "detailsNext"
            => \A i \in 1..Len(detailReqs) :
                  (HandlesDetails(i) /\ Len(detailReqs[i].response[1].conversations) = 0)
                      => /\ activeConversationId' = NoConversation
                         /\ messages' = <<>>
      ]_vars

\* C9: isSending is true only while a chat request is in flight, and it is false
\* once the request of a turn has completed, with success or with failure.
C9_SendingEndsWithRequest ==
    /\ isSending => chatReqs # <<>>
    /\ last \in {"chatNext", "chatError"} => (~isSending /\ chatReqs = <<>>)

\* C9 witness: a turn that entered Sending has failed and left it.
C9_Witness ==
    /\ last = "chatError"
    /\ ~isSending
    /\ chatReqs = <<>>
    /\ requests >= 2

\* C10: startNewConversation() sets the active conversation id to null and the
\* transcript to empty, dispatches no request, and leaves useCase, useCaseId,
\* isSending, isLoading, error, newMessage and the requests in flight unchanged.
C10_StartNewConversationFrame ==
    [][ last' = "startNewConversation"
            => /\ activeConversationId' = NoConversation
               /\ messages' = <<>>
               /\ UNCHANGED <<useCase, useCaseId, isSending, isLoading, error, newMessage,
                              detailReqs, chatReqs, requests, routeSub, server>>
      ]_vars

\* C10 witness: startNewConversation() has run while a chat request and a details
\* load were in flight, and both still are.
C10_Witness ==
    /\ last = "startNewConversation"
    /\ activeConversationId = NoConversation
    /\ messages = <<>>
    /\ isSending
    /\ chatReqs # <<>>
    /\ isLoading
    /\ detailReqs # <<>>

\* C11: every accepted sendMessage() call (input non-blank, isSending false)
\* dispatches exactly one request and no details load: startConversation(useCaseId,
\* text) when no conversation id is held at the call, sendMessage(useCaseId,
\* activeConversationId, text) otherwise, text being the input as typed; and the
\* transcript after the call is the one before it followed by one user message
\* whose content is text.
C11_AcceptedCallDispatchesOneRequest ==
    [][ (last' = "sendMessage" /\ Trim(newMessage) # <<>> /\ ~isSending)
            => /\ Len(chatReqs') = Len(chatReqs) + 1
               /\ \A i \in 1..Len(chatReqs) : chatReqs'[i] = chatReqs[i]
               /\ detailReqs' = detailReqs
               /\ requests' = requests + 1
               /\ LET request == chatReqs'[Len(chatReqs')]
                  IN  /\ request.response = <<>>
                      /\ request.useCaseId = useCaseId
                      /\ request.user_input = newMessage
                      /\ IF activeConversationId = NoConversation
                         THEN request.kind = "startConversation"
                         ELSE /\ request.kind = "sendMessage"
                              /\ request.conversationId = activeConversationId
               /\ Len(messages') = Len(messages) + 1
               /\ \A i \in 1..Len(messages) : messages'[i] = messages[i]
               /\ LET shown == messages'[Len(messages')]
                  IN  /\ shown.sender_role = "user"
                      /\ shown.content = newMessage
                      /\ shown.id \in ClockReads
      ]_vars

\* C11 witness: a call made with a conversation active and input that trimming
\* would shorten has dispatched a sendMessage request carrying the input as typed,
\* behind the earlier entries of the transcript.
C11_Witness ==
    /\ last = "sendMessage"
    /\ Len(chatReqs) = 1
    /\ chatReqs[1].kind = "sendMessage"
    /\ chatReqs[1].response = <<>>
    /\ chatReqs[1].conversationId = activeConversationId
    /\ chatReqs[1].user_input # Trim(chatReqs[1].user_input)
    /\ Len(messages) >= 2
    /\ messages[Len(messages)] = chatReqs[1].userMessage

\* C12: a createUseCase() call with a description that is non-blank dispatches one
\* creation request carrying the description as typed; and when a creation
\* request succeeds, the list gains exactly one entry, at position 0, equal to the
\* record the service returned, with the previous entries in order after it, the
\* description field is emptied, the form is closed, and one navigation to
\* /use-case/<returned id> is requested.
C12_CreatedUseCaseIsPrepended ==
    [][ /\ (last' = "createUseCase" /\ Trim(newUseCaseDescription) # <<>>)
            => /\ Len(createReqs') = Len(createReqs) + 1
               /\ createReqs'[Len(createReqs')].description = newUseCaseDescription
        /\ last' = "createNext"
            => \A i \in 1..Len(createReqs) :
                  HandlesCreate(i)
                      => LET returned == createReqs[i].response[1]
                         IN  /\ returned \in Range(serverUseCases)
                             /\ returned.description = createReqs[i].description
                             /\ Prepended(useCases', returned, useCases)
                             /\ newUseCaseDescription' = <<>>
                             /\ showCreateForm' = FALSE
                             /\ navigated' = Append(navigated, <<"/use-case", returned.id>>)
      ]_vars

\* C12 witness: a creation has succeeded on a list that already held entries: the
\* created record is first, the form is cleared and closed, and the navigation to
\* its detail view is the one requested.
C12_Witness ==
    /\ last = "createNext"
    /\ Len(useCases) >= 3
    /\ useCases[1].id > Cardinality(UseCaseIds)
    /\ useCases[1] \in Range(serverUseCases)
    /\ SubSeq(useCases, 2, Len(useCases)) = InitialUseCases
    /\ newUseCaseDescription = <<>>
    /\ ~showCreateForm
    /\ navigated = << <<"/use-case", useCases[1].id>> >>

\* C13 as stated: ngOnInit() dispatches one getUseCases request; when it succeeds
\* the list becomes the response; when it fails the list is empty and nothing else
\* of the view changes; in both outcomes isLoading is false afterwards.
C13_FailedLoadLeavesListEmpty ==
    [][ /\ last' = "homeNgOnInit"
            => /\ Len(listReqs') = Len(listReqs) + 1
               /\ createReqs' = createReqs
        /\ last' = "listNext"
            => \A i \in 1..Len(listReqs) :
                  HandlesList(i) => (useCases' = listReqs[i].response[1] /\ ~homeIsLoading')
        /\ last' = "listError"
            => /\ useCases' = <<>>
               /\ ~homeIsLoading'
               /\ UNCHANGED <<showCreateForm, newUseCaseDescription, isCreating, navigated>>
      ]_vars

\* C13: ngOnInit() dispatches one getUseCases request; when it succeeds the list
\* becomes the response; when it fails the list is left as it was and nothing else
\* of the view changes; in both outcomes isLoading is false afterwards.
C13_FailedLoadLeavesListUntouched ==
    [][ /\ last' = "homeNgOnInit"
            => /\ Len(listReqs') = Len(listReqs) + 1
               /\ createReqs' = createReqs
        /\ last' = "listNext"
            => \A i \in 1..Len(listReqs) :
                  HandlesList(i) => (useCases' = listReqs[i].response[1] /\ ~homeIsLoading')
        /\ last' = "listError"
            => /\ useCases' = useCases
               /\ ~homeIsLoading'
               /\ UNCHANGED <<showCreateForm, newUseCaseDescription, isCreating, navigated>>
      ]_vars

\* C13 witness: the list load has failed after a creation succeeded: isLoading is
\* false and the list holds the created use case.
C13_Witness ==
    /\ last = "listError"
    /\ ~homeIsLoading
    /\ listReqs = <<>>
    /\ Len(useCases) = 1
    /\ useCases[1].id > Cardinality(UseCaseIds)

\* C14: handling the failure of a creation request sets isCreating to false and
\* leaves the list, the description field, the form visibility, the navigation
\* requests and the loading state as they were.
C14_FailedCreationChangesNothing ==
    [][ last' = "createError"
            => /\ isCreating' = FALSE
               /\ UNCHANGED <<useCases, newUseCaseDescription, showCreateForm, navigated,
                              homeIsLoading, listReqs, homeView>>
      ]_vars

\* C14 witness: a creation has failed with the form open: the description typed is
\* still in the field, the loaded list is as it was and no navigation was requested.
C14_Witness ==
    /\ last = "createError"
    /\ ~isCreating
    /\ createReqs = <<>>
    /\ showCreateForm
    /\ Trim(newUseCaseDescription) # <<>>
    /\ useCases = InitialUseCases
    /\ navigated = <<>>

\* C15: a createUseCase() call with a non-blank description made while isCreating
\* is true dispatches one more creation request, next to the one in flight; and
\* every creation request that succeeds prepends its record to the list as it is
\* when the response arrives.
C15_DuplicateSubmissionNotGuarded ==
    [][ /\ (last' = "createUseCase" /\ Trim(newUseCaseDescription) # <<>> /\ isCreating)
            => /\ Len(createReqs') = Len(createReqs) + 1
               /\ \A i \in 1..Len(createReqs) : createReqs'[i] = createReqs[i]
               /\ createReqs'[Len(createReqs')].response = <<>>
        /\ last' = "createNext"
            => \A i \in 1..Len(createReqs) :
                  HandlesCreate(i)
                      => Prepended(useCases', createReqs[i].response[1], useCases)
      ]_vars

\* C15 witness: two creations were in flight together and both have succeeded, the
\* one the service created first arriving last: the list holds both records, the
\* later arrival first, and two navigations were requested in arrival order.
C15_Witness ==
    /\ last = "createNext"
    /\ createReqs = <<>>
    /\ Len(useCases) = 2
    /\ Len(navigated) = 2
    /\ useCases[1].id < useCases[2].id
    /\ navigated = << <<"/use-case", useCases[2].id>>, <<"/use-case", useCases[1].id>> >>

\* C16: at most one chat request is in flight in every state, and a sendMessage()
\* call made while isSending is true or with input that is blank after trimming
\* dispatches no request and changes nothing of the view.
C16_OneChatRequestAtATime ==
    /\ [](Len(chatReqs) <= 1)
    /\ [][ (last' = "sendMessage" /\ (isSending \/ Trim(newMessage) = <<>>))
              => UNCHANGED <<useCaseId, useCase, isLoading, error, messages, newMessage,
                             isSending, activeConversationId, routeSub, detailReqs,
                             chatReqs, server, requests>>
         ]_vars

\* C16 witness: sendMessage() has been called with non-blank input while the
\* request of an earlier turn was in flight, and that request is still the only one.
C16_Witness ==
    /\ last = "sendMessage"
    /\ isSending
    /\ Len(chatReqs) = 1
    /\ Trim(newMessage) # <<>>
    /\ chatReqs[1].response = <<>>

\* C17: whenever the success of a chat turn appends the assistant message, the
\* last entry of the transcript before it is the optimistic user message of that
\* turn.
C17_ReplyFollowsItsUserMessage ==
    [][ last' = "chatNext"
            => /\ messages # <<>>
               /\ messages[Len(messages)] = chatReqs[1].userMessage
      ]_vars

\* C18: isLoading is true in every state in which a details request is in flight.
C18_LoadingWhileDetailsInFlight == detailReqs # <<>> => isLoading

\* C19: every sendMessage request the view dispatches carries the id of a
\* conversation of the use case named by useCaseId; and once a details load of the
\* current use case has completed with a response, the active conversation id is
\* null or the id of one of its conversations, and every entry of the transcript
\* is one built by the view or a message of a conversation of the response.
C19_ConversationBelongsToUseCase ==
    [][ /\ (last' = "sendMessage" /\ Len(chatReqs') = Len(chatReqs) + 1
                /\ chatReqs'[Len(chatReqs')].kind = "sendMessage")
            => chatReqs'[Len(chatReqs')].conversationId \in ConversationIdsOf(useCaseId)
        /\ last' = "detailsNext"
            => \A i \in 1..Len(detailReqs) :
                  (HandlesDetails(i) /\ detailReqs[i].useCaseId = useCaseId)
                      => /\ activeConversationId' \in
                                {NoConversation} \cup ConversationIdsOf(useCaseId)
                         /\ \A k \in 1..Len(messages') :
                                \/ messages'[k].id >= Epoch
                                \/ \E c \in Range(useCase'[1].conversations) :
                                       messages'[k] \in Range(c.messages)
      ]_vars

====
